---- MODULE Spec2Model ----
(***************************************************************************)
(* pydantic_django_forms.forms.PydanticModelForm: a Django form whose      *)
(* fields are derived from a pydantic model's schema (the translator,      *)
(* _add_pydantic_fields and the helpers it calls) and whose clean() hands  *)
(* the cleaned bundle to the pydantic model and maps the reported errors   *)
(* back onto the form (the validation bridge).                             *)
(***************************************************************************)
EXTENDS Integers, Sequences, FiniteSets, TLC

VARIABLES
  pc,                 \* "class": form class defined; "unvalidated": instance built; "validated": full_clean has run
  pydantic_model,     \* Meta.model.model_fields, in declaration order: a sequence of schema entries
  base_fields,        \* the fields the form class declares itself (Django's base_fields)
  meta_fields,        \* Meta.fields: <<>> when absent, <<names>> when declared
  data,               \* the submitted bundle: field name -> raw value
  fields,             \* self.fields: ordered sequence of [name, field]
  cleaned_data,       \* self.cleaned_data: sequence of [name, value]
  errors,             \* self._errors: key (field name or "__all__") -> messages in order of arrival
  pydantic_instance,  \* self.pydantic_instance: <<>> is None, <<inst>> a validated instance
  outcome             \* what the last model_validate call returned: [ok, instance, errors]

vars == <<pc, pydantic_model, base_fields, meta_fields, data, fields,
          cleaned_data, errors, pydantic_instance, outcome>>

---------------------------------------------------------------------------
(* Bounds of the explored inputs *)

MaxFields == 2      \* schema entries per model
MaxUnion == 3       \* members of a union type
MaxMeta == 2        \* constraint objects in one entry's metadata
MaxN == 1           \* constraint values range over 0..MaxN
MaxErrors == 2      \* errors in one reported validation failure

---------------------------------------------------------------------------
(* Values: one record shape for every Python value that is submitted,      *)
(* cleaned or used as a default.                                           *)

NoneV == [k |-> "None", n |-> 0, s |-> ""]
IntV(i) == [k |-> "int", n |-> i, s |-> ""]
StrV(t) == [k |-> "str", n |-> 0, s |-> t]
BoolV(b) == [k |-> "bool", n |-> IF b THEN 1 ELSE 0, s |-> ""]

---------------------------------------------------------------------------
(* Declared types (field_info.annotation), as typing.get_origin/get_args   *)
(* see them.  A union is one whose origin is types.UnionType (X | Y); its  *)
(* members are distinct and none is itself a union.                        *)

Class(c) == [tag |-> "class", name |-> c, args |-> <<>>, vals |-> <<>>]
NoAnnotation == [tag |-> "None", name |-> "", args |-> <<>>, vals |-> <<>>]
LiteralT(vs) == [tag |-> "Literal", name |-> "", args |-> <<>>, vals |-> vs]
UnionT(ms) == [tag |-> "UnionType", name |-> "", args |-> ms, vals |-> <<>>]
AnnotatedT(t) == [tag |-> "Annotated", name |-> "", args |-> <<t>>, vals |-> <<>>]

NoneType == Class("NoneType")

get_origin(t) == IF t.tag \in {"Literal", "UnionType", "Annotated"} THEN t.tag ELSE "None"

get_args(t) == IF t.tag = "Literal" THEN t.vals ELSE t.args

Range(seq) == {seq[i] : i \in 1..Len(seq)}

---------------------------------------------------------------------------
(* Constraint objects of annotated_types carried in field_info.metadata    *)

Constraint(kind, n) == [kind |-> kind, n |-> n]

(* A schema entry: pydantic's FieldInfo under its name *)
FieldInfo(name, annotation, required, default, description, metadata) ==
  [name |-> name, annotation |-> annotation, required |-> required,
   default |-> default, description |-> description, metadata |-> metadata]

is_required(field_info) == field_info.required

(* get_default(): the declared default (None for a required entry's call site) *)
get_default(field_info) == field_info.default

(* field_info.description or "" *)
help_text_of(field_info) ==
  IF field_info.description = <<>> THEN "" ELSE field_info.description[1]

---------------------------------------------------------------------------
(* Django form fields as the translator constructs them.  An absent        *)
(* keyword (None) is <<>>, a given one <<v>>.                              *)

Field(kind, required, initial, help_text) ==
  [kind |-> kind, required |-> required, initial |-> initial, help_text |-> help_text,
   min_length |-> <<>>, max_length |-> <<>>, min_value |-> <<>>, max_value |-> <<>>,
   choices |-> <<>>]

---------------------------------------------------------------------------
(* The translator *)

(* _create_string_field: max_length 2000 and min_length 0 unless a MaxLen / *)
(* MinLen constraint sets them; the loop lets the last constraint win.      *)
RECURSIVE string_bounds(_, _, _, _)
string_bounds(metadata, i, min_length, max_length) ==
  IF i > Len(metadata) THEN [min_length |-> min_length, max_length |-> max_length]
  ELSE LET constraint == metadata[i]
           mx == IF constraint.kind = "MaxLen" THEN constraint.n ELSE max_length
           mn == IF constraint.kind = "MinLen" THEN constraint.n ELSE min_length
       IN string_bounds(metadata, i + 1, mn, mx)

DefaultMaxLength == 2000
DefaultMinLength == 0

(* A variant that ignores the entry's length constraints *)
_create_string_field_unconstrained(field_info, required, default) ==
  [Field("CharField", required, default, help_text_of(field_info))
     EXCEPT !.min_length = <<DefaultMinLength>>, !.max_length = <<DefaultMaxLength>>]

_create_string_field(field_info, required, default) ==
  LET b == string_bounds(field_info.metadata, 1, DefaultMinLength, DefaultMaxLength)
  IN [Field("CharField", required, default, help_text_of(field_info))
        EXCEPT !.min_length = <<b.min_length>>, !.max_length = <<b.max_length>>]

(* A variant that takes exclusive bounds as they are *)
RECURSIVE value_bounds_inclusive(_, _, _, _)
value_bounds_inclusive(metadata, i, min_value, max_value) ==
  IF i > Len(metadata) THEN [min_value |-> min_value, max_value |-> max_value]
  ELSE LET constraint == metadata[i]
           mn == IF constraint.kind \in {"Ge", "Gt"} THEN <<constraint.n>> ELSE min_value
           mx == IF constraint.kind \in {"Le", "Lt"} THEN <<constraint.n>> ELSE max_value
       IN value_bounds_inclusive(metadata, i + 1, mn, mx)

(* The constraint loop shared by _create_integer_field and               *)
(* _create_float_field: Ge/Le map directly, Gt adds one, Lt subtracts one *)
RECURSIVE value_bounds(_, _, _, _)
value_bounds(metadata, i, min_value, max_value) ==
  IF i > Len(metadata) THEN [min_value |-> min_value, max_value |-> max_value]
  ELSE LET constraint == metadata[i]
           mn1 == IF constraint.kind = "Ge" THEN <<constraint.n>> ELSE min_value
           mn2 == IF constraint.kind = "Gt" THEN <<constraint.n + 1>> ELSE mn1
           mx1 == IF constraint.kind = "Le" THEN <<constraint.n>> ELSE max_value
           mx2 == IF constraint.kind = "Lt" THEN <<constraint.n - 1>> ELSE mx1
       IN value_bounds(metadata, i + 1, mn2, mx2)

_create_integer_field(field_info, required, default) ==
  LET b == value_bounds(field_info.metadata, 1, <<>>, <<>>)
  IN [Field("IntegerField", required, default, help_text_of(field_info))
        EXCEPT !.min_value = b.min_value, !.max_value = b.max_value]

_create_float_field(field_info, required, default) ==
  LET b == value_bounds(field_info.metadata, 1, <<>>, <<>>)
  IN [Field("FloatField", required, default, help_text_of(field_info))
        EXCEPT !.min_value = b.min_value, !.max_value = b.max_value]

(* prio = [str, float, int, date, datetime] *)
prio == <<Class("str"), Class("float"), Class("int"), Class("date"), Class("datetime")>>

(* next((t for t in prio if t in type_classes), None) *)
RECURSIVE first_in_prio(_, _)
first_in_prio(i, type_classes) ==
  IF i > Len(prio) THEN NoAnnotation
  ELSE IF prio[i] \in type_classes THEN prio[i]
  ELSE first_in_prio(i + 1, type_classes)

(* A variant that takes the first declared member the priority list knows *)
union_to_field_type_declared(field_type) ==
  LET union_args == get_args(field_type)
      known == {j \in 1..Len(union_args) : union_args[j] \in Range(prio)}
  IN IF known = {} THEN NoAnnotation
     ELSE union_args[CHOOSE j \in known : \A k \in known : j <= k]

union_to_field_type(field_type) ==
  LET union_args == get_args(field_type)
      type_classes == {union_args[i] : i \in {j \in 1..Len(union_args) : union_args[j] # NoneType}}
  IN first_in_prio(1, type_classes)

_map_type_to_field(field_type0, field_info, required, default) ==
  LET field_type ==
        IF get_origin(field_type0) = "Annotated"
        THEN LET actual_type == get_args(field_type0)[1]
             IN IF get_origin(actual_type) = "UnionType"
                THEN union_to_field_type(actual_type)
                ELSE actual_type
        ELSE IF get_origin(field_type0) = "UnionType"
        THEN union_to_field_type(field_type0)
        ELSE field_type0
      help == help_text_of(field_info)
  IN CASE field_type = Class("str") -> _create_string_field(field_info, required, default)
       [] field_type = Class("int") -> _create_integer_field(field_info, required, default)
       [] field_type = Class("float") -> _create_float_field(field_info, required, default)
       [] field_type = Class("bool") -> Field("BooleanField", required, default, help)
       [] field_type = Class("date") -> Field("DateField", required, default, help)
       [] field_type = Class("datetime") -> Field("DateTimeField", required, default, help)
       [] OTHER -> _create_string_field(field_info, required, default)

(* The optional check of _convert_pydantic_field: a union of exactly two   *)
(* members one of which is NoneType unwraps to the other and is not        *)
(* required.                                                               *)
is_optional(field_type) ==
  /\ get_origin(field_type) = "UnionType"
  /\ Len(get_args(field_type)) = 2
  /\ NoneType \in Range(get_args(field_type))

unwrap_optional(field_type) ==
  LET args == get_args(field_type)
  IN IF args[2] = NoneType THEN args[1] ELSE args[2]

(* A variant that lists the choices in reverse *)
_convert_pydantic_field_reversed(field_name, field_info) ==
  LET field_type0 == field_info.annotation
      required0 == is_required(field_info)
      default == IF ~required0 THEN <<get_default(field_info)>> ELSE <<>>
      opt == is_optional(field_type0)
      field_type == IF opt THEN unwrap_optional(field_type0) ELSE field_type0
      required == IF opt THEN FALSE ELSE required0
  IN IF get_origin(field_type) = "Literal"
     THEN LET args == get_args(field_type)
              choices == [i \in 1..Len(args) |->
                            <<args[Len(args) + 1 - i], args[Len(args) + 1 - i]>>]
          IN [Field("ChoiceField", required, default, help_text_of(field_info))
                EXCEPT !.choices = choices]
     ELSE _map_type_to_field(field_type, field_info, required, default)

_convert_pydantic_field(field_name, field_info) ==
  LET field_type0 == field_info.annotation
      required0 == is_required(field_info)
      default == IF ~required0 THEN <<get_default(field_info)>> ELSE <<>>
      opt == is_optional(field_type0)
      field_type == IF opt THEN unwrap_optional(field_type0) ELSE field_type0
      required == IF opt THEN FALSE ELSE required0
  IN IF get_origin(field_type) = "Literal"
     THEN LET args == get_args(field_type)
              choices == [i \in 1..Len(args) |-> <<args[i], args[i]>>]
          IN [Field("ChoiceField", required, default, help_text_of(field_info))
                EXCEPT !.choices = choices]
     ELSE _map_type_to_field(field_type, field_info, required, default)

(* self.fields[field_name] = django_field on an insertion-ordered dict: an *)
(* existing key keeps its place and gets the new value, a new key is       *)
(* appended.                                                               *)
has_key(d, key) == \E i \in 1..Len(d) : d[i].name = key

get_item(d, key) == d[CHOOSE i \in 1..Len(d) : d[i].name = key].value

set_item(d, key, value) ==
  IF has_key(d, key)
  THEN [i \in 1..Len(d) |-> IF d[i].name = key THEN [name |-> key, value |-> value] ELSE d[i]]
  ELSE Append(d, [name |-> key, value |-> value])

(* _add_pydantic_fields: every entry of model_fields, in order, is         *)
(* converted and stored under its name.                                    *)
RECURSIVE _add_pydantic_fields(_, _, _)
_add_pydantic_fields(self_fields, model_fields, i) ==
  IF i > Len(model_fields) THEN self_fields
  ELSE LET field_info == model_fields[i]
           django_field == _convert_pydantic_field(field_info.name, field_info)
       IN _add_pydantic_fields(set_item(self_fields, field_info.name, django_field),
                               model_fields, i + 1)

---------------------------------------------------------------------------
(* Insertion-ordered dicts besides self.fields: cleaned_data, _errors,     *)
(* the submitted data.                                                     *)

keys(d) == {d[i].name : i \in 1..Len(d)}

(* d.get(key): <<>> for an absent key *)
get(d, key) == IF has_key(d, key) THEN <<get_item(d, key)>> ELSE <<>>

(* del d[key] *)
del_item(d, key) == SelectSeq(d, LAMBDA e : e.name # key)

---------------------------------------------------------------------------
(* Conversions between text and numbers *)

ParseRange == -3..12

(* str(i) *)
str(v) == IF v.k = "int" THEN ToString(v.n)
          ELSE IF v.k = "bool" THEN (IF v.n = 1 THEN "True" ELSE "False")
          ELSE IF v.k = "None" THEN "None"
          ELSE v.s

(* int(text): <<i>> when the text is a decimal numeral, <<>> (ValueError) otherwise *)
parse_int(text) ==
  IF \E i \in ParseRange : ToString(i) = text
  THEN <<CHOOSE i \in ParseRange : ToString(i) = text>>
  ELSE <<>>

(* len(text) for the texts the model submits *)
len(text) ==
  CASE text = "" -> 0
    [] parse_int(text) # <<>> ->
         (IF parse_int(text)[1] < -9 THEN 3
          ELSE IF parse_int(text)[1] < 0 \/ parse_int(text)[1] > 9 THEN 2 ELSE 1)
    [] text \in {"Foo", "Bar", "Baz"} -> 3
    [] OTHER -> 10

ValidDate == "2025-01-01"

---------------------------------------------------------------------------
(* Django: what a form field's clean(value) does, per kind.  The result is *)
(* [value, errors]: the cleaned value, and the messages of the             *)
(* ValidationError raised (none when it returns).                          *)

empty_values == {NoneV, StrV("")}

Cleaned(v) == [value |-> v, errors |-> <<>>]

Raised(msgs) == [value |-> NoneV, errors |-> msgs]

required_msg == "This field is required."

(* Field.validate, then Field.run_validators over the given validator results *)
validate_and_run(field, value, validator_errors) ==
  IF value \in empty_values /\ field.required THEN Raised(<<required_msg>>)
  ELSE IF value \in empty_values THEN Cleaned(value)
  ELSE IF validator_errors # <<>> THEN Raised(validator_errors)
  ELSE Cleaned(value)

length_validators(field, value) ==
  (IF field.min_length # <<>> /\ len(value.s) < field.min_length[1]
   THEN <<"Ensure this value has at least " \o ToString(field.min_length[1])
            \o " characters (it has " \o ToString(len(value.s)) \o ").">>
   ELSE <<>>)
  \o
  (IF field.max_length # <<>> /\ len(value.s) > field.max_length[1]
   THEN <<"Ensure this value has at most " \o ToString(field.max_length[1])
            \o " characters (it has " \o ToString(len(value.s)) \o ").">>
   ELSE <<>>)

value_validators(field, value) ==
  (IF field.max_value # <<>> /\ value.n > field.max_value[1]
   THEN <<"Ensure this value is less than or equal to " \o ToString(field.max_value[1]) \o ".">>
   ELSE <<>>)
  \o
  (IF field.min_value # <<>> /\ value.n < field.min_value[1]
   THEN <<"Ensure this value is greater than or equal to " \o ToString(field.min_value[1]) \o ".">>
   ELSE <<>>)

(* ChoiceField.valid_value: the text is the key of one of the choices *)
valid_value(field, text) == \E i \in 1..Len(field.choices) : field.choices[i][1] = text

CharField_clean(field, raw) ==
  LET value == IF raw \in empty_values THEN StrV("") ELSE StrV(str(raw))
  IN validate_and_run(field, value, length_validators(field, value))

NumberField_clean(field, raw, invalid_msg) ==
  IF raw \in empty_values THEN validate_and_run(field, NoneV, <<>>)
  ELSE LET parsed == parse_int(str(raw))
       IN IF parsed = <<>> THEN Raised(<<invalid_msg>>)
          ELSE validate_and_run(field, IntV(parsed[1]), value_validators(field, IntV(parsed[1])))

BooleanField_clean(field, raw) ==
  LET truth == CASE raw.k = "None" -> FALSE
                 [] raw.k = "bool" -> raw.n = 1
                 [] raw.k = "int" -> raw.n # 0
                 [] OTHER -> raw.s \notin {"", "False", "false"}
  IN IF ~truth /\ field.required THEN Raised(<<required_msg>>) ELSE Cleaned(BoolV(truth))

ChoiceField_clean(field, raw) ==
  LET value == IF raw \in empty_values THEN StrV("") ELSE StrV(str(raw))
  IN IF value \in empty_values /\ field.required THEN Raised(<<required_msg>>)
     ELSE IF value.s # "" /\ ~valid_value(field, value.s)
     THEN Raised(<<"Select a valid choice. " \o value.s
                     \o " is not one of the available choices.">>)
     ELSE Cleaned(value)

DateField_clean(field, raw, invalid_msg) ==
  IF raw \in empty_values THEN validate_and_run(field, NoneV, <<>>)
  ELSE IF str(raw) = ValidDate THEN Cleaned([k |-> "date", n |-> 0, s |-> ValidDate])
  ELSE Raised(<<invalid_msg>>)

field_clean(field, raw) ==
  CASE field.kind = "CharField" -> CharField_clean(field, raw)
    [] field.kind = "IntegerField" -> NumberField_clean(field, raw, "Enter a whole number.")
    [] field.kind = "FloatField" -> NumberField_clean(field, raw, "Enter a number.")
    [] field.kind = "BooleanField" -> BooleanField_clean(field, raw)
    [] field.kind = "ChoiceField" -> ChoiceField_clean(field, raw)
    [] field.kind = "DateField" -> DateField_clean(field, raw, "Enter a valid date.")
    [] field.kind = "DateTimeField" -> DateField_clean(field, raw, "Enter a valid date/time.")

NON_FIELD_ERRORS == "__all__"

(* Form.add_error(field, messages): the messages extend the field's list   *)
(* (field None is the non-field list) and the field leaves cleaned_data.   *)
(* The form is the pair [errors, cleaned_data].                            *)
add_error(form, field, msgs) ==
  LET key == IF field = <<>> THEN NON_FIELD_ERRORS ELSE field[1]
      old == IF has_key(form.errors, key) THEN get_item(form.errors, key) ELSE <<>>
  IN [errors |-> set_item(form.errors, key, old \o msgs),
      cleaned_data |-> del_item(form.cleaned_data, key)]

(* Form._clean_fields: every field of self.fields in order; the value is   *)
(* data.get(name); a cleaned value is stored, a ValidationError goes to    *)
(* add_error.                                                              *)
RECURSIVE _clean_fields(_, _, _, _)
_clean_fields(form, self_fields, self_data, i) ==
  IF i > Len(self_fields) THEN form
  ELSE LET name == self_fields[i].name
           raw == IF has_key(self_data, name) THEN get_item(self_data, name) ELSE NoneV
           r == field_clean(self_fields[i].value, raw)
           form1 == IF r.errors = <<>>
                    THEN [form EXCEPT !.cleaned_data = set_item(@, name, r.value)]
                    ELSE add_error(form, <<name>>, r.errors)
       IN _clean_fields(form1, self_fields, self_data, i + 1)

---------------------------------------------------------------------------
(* pydantic: what Meta.model.model_validate(cleaned_data) returns or       *)
(* raises.  A type's validation gives [ok, value, errors], the errors as   *)
(* [loc, msg] with loc relative to the field.                              *)

Valid(v) == [ok |-> TRUE, value |-> v, errors |-> <<>>]

Invalid(msg) == [ok |-> FALSE, value |-> NoneV, errors |-> <<[loc |-> <<>>, msg |-> msg]>>]

(* 'Foo', 'Bar' or 'Baz' *)
RECURSIVE literal_list(_, _)
literal_list(vals, i) ==
  IF i = Len(vals) THEN "'" \o vals[i] \o "'"
  ELSE IF i = Len(vals) - 1
  THEN "'" \o vals[i] \o "' or " \o literal_list(vals, i + 1)
  ELSE "'" \o vals[i] \o "', " \o literal_list(vals, i + 1)

validate_class(c, v) ==
  CASE c = "str" ->
         IF v.k = "str" THEN Valid(v) ELSE Invalid("Input should be a valid string")
    [] c \in {"int", "float"} ->
         LET what == IF c = "int" THEN "integer" ELSE "number"
         IN IF v.k \in {"int", "bool"} THEN Valid(IntV(v.n))
            ELSE IF v.k = "str" /\ parse_int(v.s) # <<>> THEN Valid(IntV(parse_int(v.s)[1]))
            ELSE IF v.k = "str"
            THEN Invalid("Input should be a valid " \o what \o ", unable to parse string as "
                           \o (IF c = "int" THEN "an integer" ELSE "a number"))
            ELSE Invalid("Input should be a valid " \o what)
    [] c = "bool" ->
         IF v.k = "bool" THEN Valid(v)
         ELSE IF v.k = "int" /\ v.n \in {0, 1} THEN Valid(BoolV(v.n = 1))
         ELSE IF v.k = "str" /\ v.s \in {"true", "True", "1"} THEN Valid(BoolV(TRUE))
         ELSE IF v.k = "str" /\ v.s \in {"false", "False", "0"} THEN Valid(BoolV(FALSE))
         ELSE IF v.k \in {"str", "int"}
         THEN Invalid("Input should be a valid boolean, unable to interpret input")
         ELSE Invalid("Input should be a valid boolean")
    [] c \in {"date", "datetime"} ->
         IF v.k = "date" \/ (v.k = "str" /\ v.s = ValidDate)
         THEN Valid([k |-> "date", n |-> 0, s |-> ValidDate])
         ELSE Invalid("Input should be a valid " \o c)
    [] c = "NoneType" ->
         IF v = NoneV THEN Valid(v) ELSE Invalid("Input should be None")
    [] OTHER -> Invalid("Input should be a valid dictionary")

(* The tag pydantic puts in an error's loc for the member of a union *)
type_label(t) ==
  IF t.tag = "class" THEN (IF t.name = "NoneType" THEN "none" ELSE t.name)
  ELSE IF t.tag = "Literal" THEN "literal[" \o literal_list(t.vals, 1) \o "]"
  ELSE "any"

validate_member(t, v) ==
  CASE t.tag = "class" -> validate_class(t.name, v)
    [] t.tag = "Literal" ->
         IF v.k = "str" /\ v.s \in Range(t.vals) THEN Valid(v)
         ELSE Invalid("Input should be " \o literal_list(t.vals, 1))
    [] OTHER -> Valid(v)

(* A union: the member that takes the value unchanged, else the first that *)
(* takes it; when none does, every member's errors under the member's tag. *)
RECURSIVE union_errors(_, _, _)
union_errors(ms, v, i) ==
  IF i > Len(ms) THEN <<>>
  ELSE LET es == validate_member(ms[i], v).errors
       IN [j \in 1..Len(es) |-> [loc |-> <<type_label(ms[i])>> \o es[j].loc, msg |-> es[j].msg]]
          \o union_errors(ms, v, i + 1)

validate_union(ms, v) ==
  LET oks == {i \in 1..Len(ms) : validate_member(ms[i], v).ok}
      exact == {i \in oks : validate_member(ms[i], v).value = v}
      first(S) == CHOOSE i \in S : \A j \in S : i <= j
  IN IF exact # {} THEN validate_member(ms[first(exact)], v)
     ELSE IF oks # {} THEN validate_member(ms[first(oks)], v)
     ELSE IF Len(ms) = 1
     THEN validate_member(ms[1], v)
     ELSE [ok |-> FALSE, value |-> NoneV, errors |-> union_errors(ms, v, 1)]

validate_type(t0, v) ==
  LET t == IF t0.tag = "Annotated" THEN t0.args[1] ELSE t0
  IN IF t.tag = "UnionType"
     THEN IF NoneType \in Range(t.args) /\ v = NoneV THEN Valid(v)
          ELSE validate_union(SelectSeq(t.args, LAMBDA m : m # NoneType), v)
     ELSE validate_member(t, v)

(* The constraints of the metadata on a validated value: numbers are       *)
(* checked against le, lt, ge, gt in that order, strings against their     *)
(* length bounds; the first violated one is reported.                      *)
constraint_violated(c, v) ==
  CASE c.kind = "Le" -> v.k = "int" /\ ~(v.n <= c.n)
    [] c.kind = "Lt" -> v.k = "int" /\ ~(v.n < c.n)
    [] c.kind = "Ge" -> v.k = "int" /\ ~(v.n >= c.n)
    [] c.kind = "Gt" -> v.k = "int" /\ ~(v.n > c.n)
    [] c.kind = "MinLen" -> v.k = "str" /\ len(v.s) < c.n
    [] c.kind = "MaxLen" -> v.k = "str" /\ len(v.s) > c.n

constraint_msg(c) ==
  CASE c.kind = "Le" -> "Input should be less than or equal to " \o ToString(c.n)
    [] c.kind = "Lt" -> "Input should be less than " \o ToString(c.n)
    [] c.kind = "Ge" -> "Input should be greater than or equal to " \o ToString(c.n)
    [] c.kind = "Gt" -> "Input should be greater than " \o ToString(c.n)
    [] c.kind = "MinLen" -> "String should have at least " \o ToString(c.n) \o " characters"
    [] c.kind = "MaxLen" -> "String should have at most " \o ToString(c.n) \o " characters"

check_order == <<"Le", "Lt", "Ge", "Gt", "MinLen", "MaxLen">>

check_constraints(metadata, v) ==
  LET rank(kind) == CHOOSE r \in 1..Len(check_order) : check_order[r] = kind
      bad == {i \in 1..Len(metadata) : constraint_violated(metadata[i], v)}
      firstbad == CHOOSE i \in bad : \A j \in bad :
                    \/ rank(metadata[i].kind) < rank(metadata[j].kind)
                    \/ (rank(metadata[i].kind) = rank(metadata[j].kind) /\ i <= j)
  IN IF bad = {} THEN <<>> ELSE <<constraint_msg(metadata[firstbad])>>

validate_field(field_info, v) ==
  LET r == validate_type(field_info.annotation, v)
      cs == IF r.ok THEN check_constraints(field_info.metadata, r.value) ELSE <<>>
  IN IF r.ok /\ cs # <<>> THEN Invalid(cs[1]) ELSE r

(* model_validate over a dict: every schema entry in order; a missing key  *)
(* is "Field required" for a required entry and the default otherwise.     *)
(* The result is [ok, instance, errors]; errors is what e.errors() lists.  *)
RECURSIVE model_validate_from(_, _, _, _)
model_validate_from(model_fields, input, i, acc) ==
  IF i > Len(model_fields)
  THEN [ok |-> acc.errors = <<>>,
        instance |-> IF acc.errors = <<>> THEN acc.instance ELSE <<>>,
        errors |-> acc.errors]
  ELSE LET field_info == model_fields[i]
           name == field_info.name
       IN IF ~has_key(input, name)
          THEN IF field_info.required
               THEN model_validate_from(model_fields, input, i + 1,
                      [acc EXCEPT !.errors = Append(@, [loc |-> <<name>>, msg |-> "Field required"])])
               ELSE model_validate_from(model_fields, input, i + 1,
                      [acc EXCEPT !.instance = set_item(@, name, field_info.default)])
          ELSE LET r == validate_field(field_info, get_item(input, name))
               IN IF r.ok
                  THEN model_validate_from(model_fields, input, i + 1,
                         [acc EXCEPT !.instance = set_item(@, name, r.value)])
                  ELSE model_validate_from(model_fields, input, i + 1,
                         [acc EXCEPT !.errors = @ \o
                            [j \in 1..Len(r.errors) |->
                               [loc |-> <<name>> \o r.errors[j].loc, msg |-> r.errors[j].msg]]])

model_validate(model_fields, input) ==
  model_validate_from(model_fields, input, 1, [instance |-> <<>>, errors |-> <<>>])

---------------------------------------------------------------------------
(* The validation bridge *)

(* A variant that names an error by the first component of its loc only *)
join_loc_first(loc, i) == IF Len(loc) = 0 THEN "" ELSE loc[1]

(* ".".join(str(x) for x in error["loc"]) *)
RECURSIVE join_loc(_, _)
join_loc(loc, i) ==
  IF Len(loc) = 0 THEN ""
  ELSE IF i = Len(loc) THEN loc[i]
  ELSE loc[i] \o "." \o join_loc(loc, i + 1)

(* The except branch of clean(): every reported error, in order, goes to   *)
(* the field whose name its joined loc is, or to the non-field errors.     *)
RECURSIVE route_errors(_, _, _, _)
route_errors(form, self_fields, error_list, i) ==
  IF i > Len(error_list) THEN form
  ELSE LET error == error_list[i]
           field_name == join_loc(error.loc, 1)
           form1 == IF has_key(self_fields, field_name)
                    THEN add_error(form, <<field_name>>, <<error.msg>>)
                    ELSE add_error(form, <<>>, <<error.msg>>)
       IN route_errors(form1, self_fields, error_list, i + 1)

(* clean(): result is what model_validate(cleaned_data) returned or raised. *)
(* The form is [errors, cleaned_data, pydantic_instance].                  *)
clean(form, self_fields, result) ==
  IF result.ok
  THEN [form EXCEPT !.pydantic_instance = <<result.instance>>]
  ELSE LET routed == route_errors([errors |-> form.errors, cleaned_data |-> form.cleaned_data],
                                  self_fields, result.errors, 1)
       IN [form EXCEPT !.errors = routed.errors, !.cleaned_data = routed.cleaned_data]

---------------------------------------------------------------------------
(* The explored inputs *)

(* All sequences over S of length lo..hi *)
SeqsOf(S, lo, hi) == UNION {[1..n -> S] : n \in lo..hi}

IsInjective(seq) == \A i, j \in 1..Len(seq) : seq[i] = seq[j] => i = j

FieldNames == <<"id", "name", "nothere", "extra">>

LiteralFooBar == LiteralT(<<"Foo", "Bar">>)

(* Model classes of the kind the tests declare: [annotation, metadata,     *)
(* required, default] and the raw values submitted for such a field        *)
(* (<<>>: the key is not submitted).                                       *)
Shape(annotation, metadata, required, default, submitted) ==
  [annotation |-> annotation, metadata |-> metadata, required |-> required,
   default |-> default, submitted |-> submitted]

Shapes ==
  { Shape(Class("int"), <<Constraint("Ge", 0), Constraint("Le", 10)>>, TRUE, NoneV,
          {<<>>, <<IntV(-1)>>, <<IntV(10)>>, <<IntV(11)>>, <<StrV("Baz")>>}),
    Shape(Class("float"), <<Constraint("Gt", 0), Constraint("Lt", 10)>>, TRUE, NoneV,
          {<<IntV(0)>>, <<IntV(5)>>, <<IntV(10)>>}),
    Shape(Class("int"), <<>>, FALSE, IntV(5),
          {<<>>, <<IntV(-1)>>, <<StrV("Baz")>>}),
    Shape(LiteralFooBar, <<>>, TRUE, NoneV,
          {<<>>, <<StrV("Foo")>>, <<StrV("Baz")>>, <<IntV(5)>>}),
    Shape(UnionT(<<Class("str"), NoneType>>), <<>>, TRUE, NoneV,
          {<<>>, <<StrV("")>>, <<StrV("Foo")>>}),
    Shape(Class("str"), <<Constraint("MaxLen", 2)>>, TRUE, NoneV,
          {<<StrV("")>>, <<StrV("Foo")>>, <<IntV(5)>>}),
    Shape(UnionT(<<Class("bool"), Class("dict")>>), <<>>, TRUE, NoneV,
          {<<StrV("Baz")>>, <<StrV("true")>>}),
    Shape(UnionT(<<Class("int"), Class("str")>>), <<>>, TRUE, NoneV,
          {<<StrV("Foo")>>}),
    Shape(UnionT(<<LiteralT(<<"Bar", "Foo">>), NoneType>>), <<>>, FALSE, NoneV,
          {<<>>, <<StrV("Baz")>>}) }

EntryOf(name, shape) ==
  FieldInfo(name, shape.annotation, shape.required, shape.default, <<>>, shape.metadata)

(* Models of 1..MaxFields entries named FieldNames[1], FieldNames[2], ... *)
ShapeSeqs == SeqsOf(Shapes, 1, MaxFields)

ModelOf(shapes) == [i \in 1..Len(shapes) |-> EntryOf(FieldNames[i], shapes[i])]

(* The bundles submitted to a form over a model: per entry, one of the raw *)
(* values of its shape, or no key.                                         *)
SubmittedFor(field_info) ==
  (CHOOSE shape \in Shapes : EntryOf(field_info.name, shape) = field_info).submitted

RECURSIVE BundlesFrom(_, _)
BundlesFrom(model_fields, i) ==
  IF i > Len(model_fields) THEN {<<>>}
  ELSE {(IF v = <<>> THEN <<>> ELSE <<[name |-> model_fields[i].name, value |-> v[1]]>>) \o rest :
          v \in SubmittedFor(model_fields[i]), rest \in BundlesFrom(model_fields, i + 1)}

Bundles(model_fields) == BundlesFrom(model_fields, 1)

(* Fields the form class declares itself, as test_forms.py's PersonModelForm does *)
MarkLindy ==
  [Field("ChoiceField", TRUE, <<>>, "")
     EXCEPT !.choices = <<<<"mark", "Mark">>, <<"lindy", "Lindy">>>>]

DeclaredFields ==
  { <<>>,
    <<[name |-> "name", value |-> MarkLindy]>>,
    <<[name |-> "id", value |-> MarkLindy]>> }

(* Meta.fields: absent, or an inclusion list *)
InclusionLists == { <<>>, <<{"id", "name"}>>, <<{"name"}>> }

NoOutcome == [ok |-> FALSE, instance |-> <<>>, errors |-> <<>>]

---------------------------------------------------------------------------
(* The form's life: the class is defined, an instance is constructed over  *)
(* a submitted bundle, is_valid() runs full_clean once.                    *)

Init ==
  /\ pc = "class"
  /\ pydantic_model \in {ModelOf(sh) : sh \in ShapeSeqs}
  /\ base_fields \in DeclaredFields
  /\ meta_fields \in InclusionLists
  /\ data = <<>>
  /\ fields = <<>>
  /\ cleaned_data = <<>>
  /\ errors = <<>>
  /\ pydantic_instance = <<>>
  /\ outcome = NoOutcome

(* PydanticModelForm.__init__(data): pydantic_instance is None, Django's   *)
(* Form.__init__ copies the declared fields into self.fields, then         *)
(* _add_pydantic_fields runs.                                              *)
Construct(d) ==
  /\ pc = "class"
  /\ pc' = "unvalidated"
  /\ data' = d
  /\ pydantic_instance' = <<>>
  /\ fields' = _add_pydantic_fields(base_fields, pydantic_model, 1)
  /\ UNCHANGED <<pydantic_model, base_fields, meta_fields, cleaned_data, errors, outcome>>

(* is_valid() -> full_clean(): _clean_fields, then _clean_form calls       *)
(* clean(), which validates cleaned_data against the pydantic model.       *)
FullClean ==
  /\ pc = "unvalidated"
  /\ LET cleaned == _clean_fields([errors |-> <<>>, cleaned_data |-> <<>>], fields, data, 1)
         result == model_validate(pydantic_model, cleaned.cleaned_data)
         form == clean([errors |-> cleaned.errors, cleaned_data |-> cleaned.cleaned_data,
                        pydantic_instance |-> pydantic_instance], fields, result)
     IN /\ errors' = form.errors
        /\ cleaned_data' = form.cleaned_data
        /\ pydantic_instance' = form.pydantic_instance
        /\ outcome' = result
  /\ pc' = "validated"
  /\ UNCHANGED <<pydantic_model, base_fields, meta_fields, data, fields>>

Next ==
  \/ \E d \in Bundles(pydantic_model) : Construct(d)
  \/ FullClean

Spec == Init /\ [][Next]_vars

---------------------------------------------------------------------------
(* The translator alone: one form over a one-entry model whose declared    *)
(* type, required flag, description and metadata range over bounded sets.  *)

Classes == {Class(c) : c \in {"str", "float", "int", "date", "datetime", "bool", "dict", "NoneType"}}

Members == Classes \cup {LiteralFooBar}

Unions == {UnionT(ms) : ms \in {m \in SeqsOf(Members, 2, MaxUnion) : IsInjective(m)}}

Literals == {LiteralT(vs) : vs \in {v \in SeqsOf({"Foo", "Bar"}, 1, 2) : IsInjective(v)}}

Annotations ==
  Classes \cup {NoAnnotation} \cup Literals \cup Unions
    \cup {AnnotatedT(t) : t \in Classes \cup Literals \cup Unions}

TypeEntries ==
  {FieldInfo("field", t, r, NoneV, d, m) :
     t \in Annotations, r \in BOOLEAN, d \in {<<>>, <<"A descriptive field">>},
     m \in {<<>>, <<Constraint("MaxLen", 5), Constraint("MinLen", 1)>>}}

Constraints ==
  {Constraint(kind, n) : kind \in {"Ge", "Gt", "Le", "Lt", "MinLen", "MaxLen"}, n \in 0..MaxN}

BoundEntries ==
  {FieldInfo("field", t, TRUE, NoneV, <<>>, m) :
     t \in {Class("int"), Class("float"), Class("str"),
            UnionT(<<Class("int"), NoneType>>), UnionT(<<Class("int"), Class("float")>>)},
     m \in SeqsOf(Constraints, 0, MaxMeta)}

InitTranslate ==
  /\ pc = "class"
  /\ pydantic_model \in {<<e>> : e \in TypeEntries \cup BoundEntries}
  /\ base_fields = <<>>
  /\ meta_fields = <<>>
  /\ data = <<>>
  /\ fields = <<>>
  /\ cleaned_data = <<>>
  /\ errors = <<>>
  /\ pydantic_instance = <<>>
  /\ outcome = NoOutcome

(* An unsubmitted form is constructed: SomeForm({}) *)
NextTranslate == Construct(<<>>)

SpecTranslate == InitTranslate /\ [][NextTranslate]_vars

---------------------------------------------------------------------------
(* The bridge alone: full_clean has cleaned the fields of a form and       *)
(* clean() is about to run; what the pydantic model's validation reports   *)
(* (the model may carry validators of its own) ranges over the bounded     *)
(* error lists.                                                            *)

BridgeShapes ==
  {sh \in Shapes : sh.annotation \in {UnionT(<<Class("str"), NoneType>>), LiteralFooBar}}

Locs == {<<>>, <<"id">>, <<"name">>, <<"id", "name">>}

Reports ==
  {[loc |-> l, msg |-> m] : l \in Locs, m \in {"Value error, first", "Value error, second"}}

Results(cleaned) ==
  {[ok |-> TRUE, instance |-> cleaned, errors |-> <<>>]}
    \cup {[ok |-> FALSE, instance |-> <<>>, errors |-> es] : es \in SeqsOf(Reports, 1, MaxErrors)}

InitBridge ==
  /\ pc = "fields_cleaned"
  /\ pydantic_model \in {ModelOf(sh) : sh \in SeqsOf(BridgeShapes, 1, MaxFields)}
  /\ base_fields = <<>>
  /\ meta_fields = <<>>
  /\ data \in Bundles(pydantic_model)
  /\ fields = _add_pydantic_fields(base_fields, pydantic_model, 1)
  /\ LET cleaned == _clean_fields([errors |-> <<>>, cleaned_data |-> <<>>], fields, data, 1)
     IN /\ cleaned_data = cleaned.cleaned_data
        /\ errors = cleaned.errors
  /\ pydantic_instance = <<>>
  /\ outcome = NoOutcome

(* clean(), with the result of model_validate(cleaned_data) given *)
Clean(result) ==
  /\ pc = "fields_cleaned"
  /\ LET form == clean([errors |-> errors, cleaned_data |-> cleaned_data,
                        pydantic_instance |-> pydantic_instance], fields, result)
     IN /\ errors' = form.errors
        /\ cleaned_data' = form.cleaned_data
        /\ pydantic_instance' = form.pydantic_instance
  /\ outcome' = result
  /\ pc' = "validated"
  /\ UNCHANGED <<pydantic_model, base_fields, meta_fields, data, fields>>

NextBridge == \E result \in Results(cleaned_data) : Clean(result)

SpecBridge == InitBridge /\ [][NextBridge]_vars

---------------------------------------------------------------------------
(* Vocabulary of the properties *)

Built == pc # "class"

Validated == pc = "validated"

(* The descriptor the form holds for a schema entry *)
DescriptorOf(e) == get_item(fields, e.name)

Occurrences(name) == Cardinality({i \in 1..Len(fields) : fields[i].name = name})

Entries == Range(pydantic_model)

ErrorList(d, key) == IF has_key(d, key) THEN get_item(d, key) ELSE <<>>

HasErrors == \E i \in 1..Len(errors) : errors[i].value # <<>>

(* The raw value submitted for an entry, <<>> when its key was not sent *)
SubmittedValue(e) == get(data, e.name)

ContainsAbsence(t) == t.tag = "UnionType" /\ NoneType \in Range(t.args)

(* T | None with a single T *)
TwoMemberOptional(t) == ContainsAbsence(t) /\ Len(t.args) = 2

---------------------------------------------------------------------------
(* C1: override precedence.  For every field name the form class declares  *)
(* itself that is also a field of the Meta.model schema, the constructed   *)
(* form still holds the declared descriptor under that name, and the name  *)
(* occurs exactly once in the form's fields.                               *)
C1_OverrideKept ==
  Built =>
    \A i \in 1..Len(base_fields) :
      (\E e \in Entries : e.name = base_fields[i].name) =>
        /\ Occurrences(base_fields[i].name) = 1
        /\ get_item(fields, base_fields[i].name) = base_fields[i].value

(* C2: inclusion list.  When Meta.fields is declared, a schema field whose *)
(* name is not in it is absent from the constructed form's fields, and a   *)
(* schema field in it has exactly one descriptor.                          *)
C2_InclusionList ==
  (Built /\ meta_fields # <<>>) =>
    \A e \in Entries :
      /\ e.name \notin meta_fields[1] => ~has_key(fields, e.name)
      /\ e.name \in meta_fields[1] => Occurrences(e.name) = 1

(* C3: every entry whose declared type is a union with the absence type    *)
(* (whatever the other members, one type or several) has a descriptor with *)
(* required = false, whatever the entry's own required flag.               *)
C3_OptionalNotRequired ==
  Built =>
    \A e \in Entries : ContainsAbsence(e.annotation) => ~DescriptorOf(e).required

---------------------------------------------------------------------------
(* C4: for an integer or number entry with bound constraints, a submitted  *)
(* number that violates a bound ends with the pydantic model's message for *)
(* a violated bound in that field's error list, and a submitted number     *)
(* inside the bounds ends with that number as the field's cleaned value    *)
(* and no error on the field.                                              *)
BoundKinds == {"Ge", "Gt", "Le", "Lt"}

BoundsOf(e) == {c \in Range(e.metadata) : c.kind \in BoundKinds}

C4_BoundMessage ==
  Validated =>
    \A e \in Entries :
      (/\ e.annotation \in {Class("int"), Class("float")}
       /\ BoundsOf(e) # {}
       /\ SubmittedValue(e) # <<>>
       /\ SubmittedValue(e)[1].k = "int") =>
        LET v == SubmittedValue(e)[1]
            violated == {c \in BoundsOf(e) : constraint_violated(c, v)}
        IN IF violated # {}
           THEN /\ \E c \in violated : constraint_msg(c) \in Range(ErrorList(errors, e.name))
                /\ pydantic_instance = <<>>
           ELSE /\ ErrorList(errors, e.name) = <<>>
                /\ get(cleaned_data, e.name) = <<v>>

---------------------------------------------------------------------------
(* C5: error routing.  When model_validate fails with an ordered list of   *)
(* (loc, msg) errors, each loc is joined with "." into a name; the message *)
(* goes to that field's error list when the name is a field of the form    *)
(* and to the non-field list otherwise.  So after clean() every error list *)
(* is what _clean_fields left there followed by the messages routed to it, *)
(* in report order, and no message is lost.                                *)
DottedName(loc) ==
  CASE Len(loc) = 0 -> ""
    [] Len(loc) = 1 -> loc[1]
    [] Len(loc) = 2 -> loc[1] \o "." \o loc[2]
    [] OTHER -> loc[1] \o "." \o loc[2] \o "." \o loc[3]

RoutedKey(e) ==
  IF DottedName(e.loc) \in keys(fields) THEN DottedName(e.loc) ELSE NON_FIELD_ERRORS

MessagesFor(key) ==
  LET sel == SelectSeq(outcome.errors, LAMBDA e : RoutedKey(e) = key)
  IN [i \in 1..Len(sel) |-> sel[i].msg]

PriorErrors == _clean_fields([errors |-> <<>>, cleaned_data |-> <<>>], fields, data, 1).errors

ErrorKeys == keys(fields) \cup {NON_FIELD_ERRORS}

C5_ErrorRouting ==
  (Validated /\ ~outcome.ok) =>
    /\ keys(errors) \subseteq ErrorKeys
    /\ \A key \in ErrorKeys :
         ErrorList(errors, key) = ErrorList(PriorErrors, key) \o MessagesFor(key)

(* A failure whose first error has a two-component loc (routed to the      *)
(* non-field list) and whose second error lands on a field that already    *)
(* carried an error of its own.                                            *)
C5_Witness ==
  /\ Validated /\ ~outcome.ok /\ Len(outcome.errors) = 2
  /\ Len(outcome.errors[1].loc) = 2
  /\ ErrorList(errors, NON_FIELD_ERRORS) = <<outcome.errors[1].msg>>
  /\ \E key \in keys(fields) :
       /\ RoutedKey(outcome.errors[2]) = key
       /\ Len(ErrorList(PriorErrors, key)) = 1
       /\ ErrorList(errors, key) = ErrorList(PriorErrors, key) \o <<outcome.errors[2].msg>>

---------------------------------------------------------------------------
(* C6: union resolution.  For every union-typed entry whose members, the   *)
(* absence type aside, include a type of the priority order text, floating *)
(* number, integer, date, datetime, the descriptor's kind is that of the   *)
(* first such type in the priority order, whatever the order the members   *)
(* are declared in; a union without the absence type keeps the schema's    *)
(* required flag.                                                          *)
PriorityKinds ==
  <<[type |-> "str", kind |-> "CharField"], [type |-> "float", kind |-> "FloatField"],
    [type |-> "int", kind |-> "IntegerField"], [type |-> "date", kind |-> "DateField"],
    [type |-> "datetime", kind |-> "DateTimeField"]>>

(* The union an entry declares: its annotation, or what Annotated wraps *)
UnionOf(e) ==
  IF e.annotation.tag = "Annotated" THEN e.annotation.args[1] ELSE e.annotation

IsUnionEntry(e) == UnionOf(e).tag = "UnionType"

RanksIn(u) ==
  {r \in 1..Len(PriorityKinds) :
     \E m \in Range(u.args) : m.tag = "class" /\ m.name = PriorityKinds[r].type}

BestKind(u) == PriorityKinds[CHOOSE r \in RanksIn(u) : \A q \in RanksIn(u) : r <= q].kind

C6_UnionPriority ==
  Built =>
    \A e \in Entries :
      (IsUnionEntry(e) /\ RanksIn(UnionOf(e)) # {}) =>
        /\ DescriptorOf(e).kind = BestKind(UnionOf(e))
        /\ ~ContainsAbsence(UnionOf(e)) => DescriptorOf(e).required = e.required

(* int | str of a required entry became a required text field *)
C6_Witness ==
  /\ Built
  /\ \E e \in Entries :
       /\ e.annotation = UnionT(<<Class("int"), Class("str")>>)
       /\ e.required
       /\ DescriptorOf(e).kind = "CharField"
       /\ DescriptorOf(e).required

---------------------------------------------------------------------------
(* C7: bound tightening.  For every entry that becomes an integer or       *)
(* number field, the descriptor's min bound comes from the entry's lower   *)
(* bound constraint (the last one the metadata lists): N for "greater or   *)
(* equal N", N + 1 for "greater than N", none when there is no such        *)
(* constraint; the max bound likewise: N for "less or equal N", N - 1 for  *)
(* "less than N", none without one.  int and float entries become integer  *)
(* and number fields.                                                      *)
LastOf(metadata, kinds) ==
  LET idx == {i \in 1..Len(metadata) : metadata[i].kind \in kinds}
  IN IF idx = {} THEN <<>> ELSE <<metadata[CHOOSE i \in idx : \A j \in idx : j <= i]>>

TightMin(metadata) ==
  LET c == LastOf(metadata, {"Ge", "Gt"})
  IN IF c = <<>> THEN <<>>
     ELSE IF c[1].kind = "Gt" THEN <<c[1].n + 1>> ELSE <<c[1].n>>

TightMax(metadata) ==
  LET c == LastOf(metadata, {"Le", "Lt"})
  IN IF c = <<>> THEN <<>>
     ELSE IF c[1].kind = "Lt" THEN <<c[1].n - 1>> ELSE <<c[1].n>>

C7_BoundTightening ==
  Built =>
    \A e \in Entries :
      /\ e.annotation = Class("int") => DescriptorOf(e).kind = "IntegerField"
      /\ e.annotation = Class("float") => DescriptorOf(e).kind = "FloatField"
      /\ DescriptorOf(e).kind \in {"IntegerField", "FloatField"} =>
           /\ DescriptorOf(e).min_value = TightMin(e.metadata)
           /\ DescriptorOf(e).max_value = TightMax(e.metadata)

(* A number entry with Gt(1) and Lt(1) got min 2 and max 0 *)
C7_Witness ==
  /\ Built
  /\ \E e \in Entries :
       /\ e.annotation = Class("float")
       /\ e.metadata = <<Constraint("Gt", 1), Constraint("Lt", 1)>>
       /\ DescriptorOf(e).min_value = <<2>>
       /\ DescriptorOf(e).max_value = <<0>>

---------------------------------------------------------------------------
(* C8: a literal entry (after the optional unwrap) becomes a choice field  *)
(* whose choices are the literal values, each paired with itself, in       *)
(* declaration order; a submitted (non-empty) value that is none of them   *)
(* leaves the form invalid with "<value> is not one of the available       *)
(* choices" among that field's errors.                                     *)
LiteralOf(e) ==
  LET t == e.annotation
  IN IF t.tag = "Literal" THEN <<t>>
     ELSE IF TwoMemberOptional(t)
     THEN LET others == SelectSeq(t.args, LAMBDA m : m # NoneType)
          IN IF others[1].tag = "Literal" THEN <<others[1]>> ELSE <<>>
     ELSE <<>>

NotAChoice(text) ==
  "Select a valid choice. " \o text \o " is not one of the available choices."

C8_LiteralChoice ==
  Built =>
    \A e \in Entries :
      LiteralOf(e) # <<>> =>
        LET vals == LiteralOf(e)[1].vals
        IN /\ DescriptorOf(e).kind = "ChoiceField"
           /\ DescriptorOf(e).choices = [i \in 1..Len(vals) |-> <<vals[i], vals[i]>>]
           /\ (/\ Validated
               /\ SubmittedValue(e) # <<>>
               /\ SubmittedValue(e)[1] \notin empty_values
               /\ str(SubmittedValue(e)[1]) \notin Range(vals)) =>
                /\ NotAChoice(str(SubmittedValue(e)[1])) \in Range(ErrorList(errors, e.name))
                /\ HasErrors

(* "Baz" was submitted for a Literal["Foo", "Bar"] field and refused *)
C8_Witness ==
  /\ Validated
  /\ \E e \in Entries :
       /\ e.annotation = LiteralFooBar
       /\ SubmittedValue(e) = <<StrV("Baz")>>
       /\ DescriptorOf(e).choices = <<<<"Foo", "Foo">>, <<"Bar", "Bar">>>>
       /\ NotAChoice("Baz") \in Range(ErrorList(errors, e.name))

---------------------------------------------------------------------------
(* C9: translation never drops a field.  Every schema entry, whatever its  *)
(* declared type, has exactly one descriptor under its name; when the type *)
(* maps to none of text, integer, number, boolean, date, datetime, literal *)
(* the descriptor is a text field with the text branch's length bounds     *)
(* (min 0, max 2000 unless constrained) and the entry's help text.         *)
Supported == {"str", "int", "float", "bool", "date", "datetime"}

(* The declared type once a two-member optional is unwrapped *)
Unwrapped(t) ==
  IF TwoMemberOptional(t) THEN (IF t.args[1] = NoneType THEN t.args[2] ELSE t.args[1]) ELSE t

UnmappedInner(t) ==
  \/ t.tag = "None"
  \/ t.tag = "Literal"
  \/ t.tag = "class" /\ t.name \notin Supported
  \/ t.tag = "UnionType" /\ RanksIn(t) = {}

Unmapped(e) ==
  LET t == Unwrapped(e.annotation)
  IN \/ t.tag = "None"
     \/ t.tag = "class" /\ t.name \notin Supported
     \/ t.tag = "UnionType" /\ RanksIn(t) = {}
     \/ t.tag = "Annotated" /\ UnmappedInner(t.args[1])

LengthOr(metadata, kind, default) ==
  LET c == LastOf(metadata, {kind}) IN IF c = <<>> THEN <<default>> ELSE <<c[1].n>>

TextFallback(e) ==
  /\ DescriptorOf(e).kind = "CharField"
  /\ DescriptorOf(e).min_length = LengthOr(e.metadata, "MinLen", 0)
  /\ DescriptorOf(e).max_length = LengthOr(e.metadata, "MaxLen", 2000)
  /\ DescriptorOf(e).help_text = (IF e.description = <<>> THEN "" ELSE e.description[1])

(* C9 as stated: the fallback descriptor carries the entry's required flag *)
C9_FallbackKeepsRequired ==
  Built =>
    \A e \in Entries :
      /\ Occurrences(e.name) = 1
      /\ Unmapped(e) => (TextFallback(e) /\ DescriptorOf(e).required = e.required)

(* C9 amended: the fallback descriptor carries the entry's required flag,  *)
(* except that a two-member union with the absence type is not required.   *)
C9_TotalTextFallback ==
  Built =>
    \A e \in Entries :
      /\ Occurrences(e.name) = 1
      /\ Unmapped(e) =>
           /\ TextFallback(e)
           /\ DescriptorOf(e).required =
                (IF TwoMemberOptional(e.annotation) THEN FALSE ELSE e.required)

(* A described, length-constrained union of bool and dict fell back to text *)
C9_Witness ==
  /\ Built
  /\ \E e \in Entries :
       /\ e.annotation = UnionT(<<Class("bool"), Class("dict")>>)
       /\ e.required
       /\ e.description # <<>>
       /\ e.metadata # <<>>
       /\ DescriptorOf(e).kind = "CharField"
       /\ DescriptorOf(e).max_length = <<5>>
       /\ DescriptorOf(e).required

---------------------------------------------------------------------------
(* C10: outcome exclusivity.  A constructed form carries no validated      *)
(* instance before validation; after validation it either carries the      *)
(* validated instance and has no error, or has an error and carries no     *)
(* instance.                                                               *)
C10_OutcomeExclusive ==
  /\ pc = "unvalidated" => pydantic_instance = <<>>
  /\ Validated =>
       \/ pydantic_instance # <<>> /\ ~HasErrors
       \/ HasErrors /\ pydantic_instance = <<>>

====
